---- MODULE Spec2Model ----
(***************************************************************************)
(* Model of the ORBIT/DLT experiment driver:                               *)
(*   codes/main.py                         main                            *)
(*   codes/bayesian_prediction_orbit_DLT.py                                *)
(*       hypertune_dlt_model, trigger_prediction, bayesian_orbit           *)
(*                                                                         *)
(* The third-party calls (DLT.fit, DLT.predict, mean_absolute_error, the   *)
(* metric helpers, pandas I/O) are the environment: their results are      *)
(* inputs drawn from small sets, and each of them may raise.               *)
(***************************************************************************)
EXTENDS Integers, Sequences, FiniteSets, TLC

VARIABLES
    \* ---- main.py
    flags,          \* PREPROCESSING, DGLM, ORBIT (commons)
    stages,         \* the stages main has called, in call order
    pc,             \* position of the (single) thread of control
    exc,            \* "" or the function an unhandled exception came out of
    \* ---- bayesian_orbit
    biweekly_files, monthly_files, complete_files,   \* os.listdir results
    i,              \* loop index of bayesian_orbit (1-based)
    calls,          \* the trigger_prediction calls made, in call order
    fs,             \* periodicity -> contents of its assessment.csv
    fs0,            \* fs when bayesian_orbit was entered
    \* ---- trigger_prediction (the call in progress)
    call,           \* its arguments
    raw_df,         \* rows read by pd.read_csv
    training_df, testing_df,
    mae_of,         \* the MAE mean_absolute_error yields for each combination
    predictor,      \* the model whose predict gave the final prediction
    result_data,
    \* ---- hypertune_dlt_model (the call in progress)
    trend_i, estimator_i, penalty_i,    \* the three loop positions (1-based)
    best_mae, best_model, best_config,
    fitted          \* the models fitted and evaluated so far, in order

vars == <<flags, stages, pc, exc, biweekly_files, monthly_files, complete_files, i,
          calls, fs, fs0, call, raw_df, training_df, testing_df, mae_of,
          predictor, result_data, trend_i, estimator_i, penalty_i, best_mae, best_model,
          best_config, fitted>>

mainVars  == <<flags, stages>>
orbitVars == <<biweekly_files, monthly_files, complete_files, i, calls, fs, fs0>>
dataVars  == <<raw_df, training_df, testing_df>>
tpVars    == <<call, mae_of, predictor, result_data>>
tuneVars  == <<trend_i, estimator_i, penalty_i, best_mae, best_model,
               best_config, fitted>>

(***************************************************************************)
(* Bounds of the model.                                                    *)
(***************************************************************************)
MaxMae  == 1        \* finite MAE values are 0..MaxMae
MaxRows == 6        \* a CSV file holds at most MaxRows rows

(***************************************************************************)
(* Python values.                                                          *)
(***************************************************************************)
None == [none |-> TRUE]

\* float('inf'): above every finite MAE; inf < inf is false, x < inf is true.
Inf == MaxMae + 1

MaeVals == 0..Inf

(***************************************************************************)
(* hypertune_dlt_model                                                     *)
(***************************************************************************)
trend_options == <<"linear", "loglinear", "flat", "logistic">>
estimators    == <<"stan-map", "stan-mcmc">>
penalties     == <<"None", "0.01", "0.1", "1.0">>

Config(trend, estimator, penalty) ==
    [trend |-> trend, estimator |-> estimator, penalty |-> penalty]

Combos == { Config(trend_options[t], estimators[e], penalties[p]) :
            t \in DOMAIN trend_options, e \in DOMAIN estimators,
            p \in DOMAIN penalties }

\* DLT(seasonality=.., estimator=.., global_trend_option=.., regressor_sign=..)
DLT(seasonality, estimator, trend, penalty) ==
    [seasonality |-> seasonality, estimator |-> estimator,
     global_trend_option |-> trend, regressor_sign |-> penalty]

\* The test `mae < best_mae`.
Better(mae, best) == mae < best

\* The body of the if: what (best_mae, best_model, best_config) become.
Replace(mae, model, trend, estimator, penalty) ==
    [mae |-> mae, model |-> model, config |-> Config(trend, estimator, penalty)]

\* LoopBody without the line `best_model = model`.
LoopBody_forgets_model(b, t, e, p, seasonality, maes) ==
    LET trend     == trend_options[t]
        estimator == estimators[e]
        penalty   == penalties[p]
        model     == DLT(seasonality, estimator, trend, penalty)
        mae       == maes[Config(trend, estimator, penalty)]
    IN  IF Better(mae, b.mae)
        THEN [Replace(mae, model, trend, estimator, penalty) EXCEPT !.model = b.model]
        ELSE b

\* One pass through the loop body for the combination at the loop positions
\* (t, e, p), from the best triple `b`; `seasonality` is the caller's.
LoopBody(b, t, e, p, seasonality, maes) ==
    LET trend     == trend_options[t]
        estimator == estimators[e]
        penalty   == penalties[p]
        model     == DLT(seasonality, estimator, trend, penalty)
        mae       == maes[Config(trend, estimator, penalty)]
    IN  IF Better(mae, b.mae)
        THEN Replace(mae, model, trend, estimator, penalty)
        ELSE b

\* NextPos with the two inner loops exchanged: estimators innermost.
NextPos_estimators_innermost(t, e, p) ==
    IF e < Len(estimators) THEN <<t, e + 1, p>>
    ELSE IF p < Len(penalties) THEN <<t, 1, p + 1>>
    ELSE <<t + 1, 1, 1>>

\* The loop positions after (t, e, p): penalties innermost, trends outermost.
\* t = Len(trend_options) + 1 means the loops are exhausted.
NextPos(t, e, p) ==
    IF p < Len(penalties) THEN <<t, e, p + 1>>
    ELSE IF e < Len(estimators) THEN <<t, e + 1, 1>>
    ELSE <<t + 1, 1, 1>>

InitBest == [mae |-> Inf, model |-> None, config |-> None]

\* The whole grid loop as a function of the MAE outcomes: the best triple
\* reached from `b` at position (t, e, p).
RECURSIVE RunGrid(_, _, _, _, _, _)
RunGrid(b, t, e, p, seasonality, maes) ==
    IF t > Len(trend_options) THEN b
    ELSE LET n == NextPos(t, e, p)
         IN  RunGrid(LoopBody(b, t, e, p, seasonality, maes),
                     n[1], n[2], n[3], seasonality, maes)

hypertune_dlt_model(seasonality, maes) ==
    RunGrid(InitBest, 1, 1, 1, seasonality, maes)

(***************************************************************************)
(* trigger_prediction: reading and splitting the data                      *)
(***************************************************************************)
\* A CSV row: its position in the file, and whether it has a missing value
\* (after pd.to_numeric(errors='coerce')).
Row(k, na) == [id |-> k, na |-> na]

\* Every CSV content of n rows.
CsvOfLen(n) == { [k \in 1..n |-> Row(k, k \in missing)] : missing \in SUBSET (1..n) }

CsvAll == UNION { CsvOfLen(n) : n \in 0..MaxRows }

\* A CSV of MaxRows rows, its second row incomplete.
CsvLite == { [k \in 1..MaxRows |-> Row(k, k = 2)] }

\* df.dropna()
dropna(df) == SelectSeq(df, LAMBDA r : ~r.na)

\* Python's round() of the fraction num/den (den > 0): to the nearest
\* integer, a tie to the even one.
PyRound(num, den) ==
    LET q == num \div den
        r == num % den
    IN  IF 2 * r < den THEN q
        ELSE IF 2 * r > den THEN q + 1
        ELSE IF q % 2 = 0 THEN q ELSE q + 1

\* split_point with int() in place of round().
split_point_truncated(df) == (Len(df) * 8) \div 10

\* round(len(df) * 0.8)
split_point(df) == PyRound(Len(df) * 8, 10)

\* df.iloc[:split_point, :] and df.iloc[split_point:, :]
iloc_to(df, sp)   == SubSeq(df, 1, sp)
iloc_from(df, sp) == SubSeq(df, sp + 1, Len(df))

(***************************************************************************)
(* trigger_prediction: the result row and the output file                  *)
(***************************************************************************)
DATA_PATH == "data"

join(a, b) == a \o "/" \o b

base_path(periodicity) ==
    join(join(join(DATA_PATH, "ORBIT_ML"), "DLT_Result"), periodicity)

csv_output_path(periodicity) == join(base_path(periodicity), "assessment.csv")

Periodicities == {"biweekly", "monthly", "complete"}

OutPaths == { csv_output_path(p) : p \in Periodicities }

\* The header line pandas writes: each column holds its own name.
Header ==
    [Project |-> "Project", Model |-> "Model", Trend |-> "Trend",
     Estimator |-> "Estimator", Penalty |-> "Penalty", MAE |-> "MAE",
     MAPE |-> "MAPE", RMSE |-> "RMSE", MSE |-> "MSE"]

\* The rounded metric `name` of the prediction made from the data at df_path.
Metric(name, df_path) == name \o "(" \o df_path \o ")"

ResultData(project_name, config, df_path) ==
    [Project |-> project_name, Model |-> "DLT", Trend |-> config.trend,
     Estimator |-> config.estimator, Penalty |-> config.penalty,
     MAE |-> Metric("MAE", df_path), MAPE |-> Metric("MAPE", df_path),
     RMSE |-> Metric("RMSE", df_path), MSE |-> Metric("MSE", df_path)]

NoFile == [isfile |-> FALSE, lines |-> <<>>]

\* to_csv appending with header=True.
to_csv_header_each_time(file, row) ==
    [isfile |-> TRUE, lines |-> file.lines \o <<Header, row>>]

\* results_df.to_csv(path, mode='w', header=True) / (mode='a', header=False)
to_csv(file, row) ==
    IF ~file.isfile
    THEN [isfile |-> TRUE, lines |-> <<Header, row>>]
    ELSE [isfile |-> TRUE, lines |-> Append(file.lines, row)]

(***************************************************************************)
(* trigger_prediction, step by step.  pc:                                  *)
(*   "tp_read"     at pd.read_csv                                          *)
(*   "tp_tune"     at the call of hypertune_dlt_model                      *)
(*   "grid"        inside hypertune_dlt_model, at the head of the loops    *)
(*   "tp_predict"  at best_model.predict                                   *)
(*   "tp_write"    at the to_csv                                           *)
(*   "after_<periodicity>"  returned to bayesian_orbit                     *)
(*   "raised"      an exception is propagating; nothing catches it         *)
(***************************************************************************)
\* Raise with the exception caught and the run ended quietly.
Raise_swallowed(where) ==
    /\ pc' = "done"
    /\ exc' = where
    /\ UNCHANGED <<mainVars, orbitVars, dataVars, tpVars, tuneVars>>

Raise(where) ==
    /\ pc' = "raised"
    /\ exc' = where
    /\ UNCHANGED <<mainVars, orbitVars, dataVars, tpVars, tuneVars>>

\* Lines 74-90: read, convert, drop incomplete rows, split.
TPRead(contents) ==
    /\ pc = "tp_read"
    /\ call.file # ".DS_Store"      \* not a CSV: no COMMIT_DATE column
    /\ \E csv \in contents :
         LET df == dropna(csv)
             sp == split_point(df)
         IN  /\ raw_df' = csv
             /\ training_df' = iloc_to(df, sp)
             /\ testing_df' = iloc_from(df, sp)
    /\ pc' = "tp_tune"
    /\ UNCHANGED <<exc, mainVars, orbitVars, tpVars, tuneVars>>

\* pd.read_csv, pd.to_datetime or the column accesses raise.
TPReadRaise ==
    /\ pc = "tp_read"
    /\ Raise("trigger_prediction")

\* Lines 93-100, the whole call: every fit and predict returned.
TPHypertune(tables) ==
    /\ pc = "tp_tune"
    /\ \E maes \in tables :
         LET b == hypertune_dlt_model(call.seasonality, maes)
         IN  /\ mae_of' = maes
             /\ best_mae' = b.mae
             /\ best_model' = b.model
             /\ best_config' = b.config
    /\ trend_i' = Len(trend_options) + 1
    /\ estimator_i' = 1
    /\ penalty_i' = 1
    /\ pc' = "tp_predict"
    /\ UNCHANGED <<exc, mainVars, orbitVars, dataVars, call, predictor, result_data,
                   fitted>>

\* Some fit, predict or mean_absolute_error of the grid raises.
TPHypertuneRaise ==
    /\ pc = "tp_tune"
    /\ Raise("hypertune_dlt_model")

\* Lines 27-64: one iteration of the innermost loop.
GridIter ==
    /\ pc = "grid"
    /\ trend_i <= Len(trend_options)
    /\ LET b == LoopBody([mae |-> best_mae, model |-> best_model,
                          config |-> best_config],
                         trend_i, estimator_i, penalty_i, call.seasonality,
                         mae_of)
           n == NextPos(trend_i, estimator_i, penalty_i)
       IN  /\ best_mae' = b.mae
           /\ best_model' = b.model
           /\ best_config' = b.config
           /\ fitted' = Append(fitted,
                               DLT(call.seasonality, estimators[estimator_i],
                                   trend_options[trend_i], penalties[penalty_i]))
           /\ trend_i' = n[1]
           /\ estimator_i' = n[2]
           /\ penalty_i' = n[3]
    /\ pc' = "grid"
    /\ UNCHANGED <<exc, mainVars, orbitVars, dataVars, tpVars>>

\* model.fit, model.predict or mean_absolute_error raises in an iteration.
GridRaise ==
    /\ pc = "grid"
    /\ trend_i <= Len(trend_options)
    /\ Raise("hypertune_dlt_model")

\* Lines 66-69: the loops are exhausted.
GridReturn ==
    /\ pc = "grid"
    /\ trend_i > Len(trend_options)
    /\ pc' = "tp_predict"
    /\ UNCHANGED <<exc, mainVars, orbitVars, dataVars, tpVars, tuneVars>>

\* Line 103 on best_model = None: AttributeError.
TPPredictNone ==
    /\ pc = "tp_predict"
    /\ best_model = None
    /\ Raise("trigger_prediction")

\* Lines 103-131: final prediction, metrics, result_data.
TPFinal ==
    /\ pc = "tp_predict"
    /\ best_model # None
    /\ best_config # None
    /\ predictor' = best_model
    /\ result_data' = ResultData(call.project_name, best_config, call.df_path)
    /\ pc' = "tp_write"
    /\ UNCHANGED <<exc, mainVars, orbitVars, dataVars, call, mae_of, tuneVars>>

\* best_model.predict or a metric helper raises.
TPFinalRaise ==
    /\ pc = "tp_predict"
    /\ best_model # None
    /\ Raise("trigger_prediction")

\* Lines 134-146: write or append the row, return.
TPWrite ==
    /\ pc = "tp_write"
    /\ LET path == csv_output_path(call.periodicity)
       IN  fs' = [fs EXCEPT ![path] = to_csv(fs[path], result_data)]
    /\ pc' = "after_" \o call.periodicity
    /\ UNCHANGED <<exc, mainVars, biweekly_files, monthly_files, complete_files, i,
                   calls, fs0, dataVars, tpVars, tuneVars>>

(***************************************************************************)
(* bayesian_orbit.  pc = "loop": at the head of the for loop.              *)
(***************************************************************************)
biweekly_data_path == join(DATA_PATH, "biweekly_data_1")
monthly_data_path  == join(DATA_PATH, "monthly_data_1")
complete_data_path == join(DATA_PATH, "complete_data_1")

\* name[:-4]
Stem(name) == IF Len(name) > 4 THEN SubSeq(name, 1, Len(name) - 4) ELSE ""

\* The call trigger_prediction(df_path=join(dir, file), ...): its arguments,
\* and the locals of the previous call forgotten.
Trigger(dir, file, project, periodicity, seasonality) ==
    /\ call' = [df_path |-> join(dir, file), file |-> file,
                project_name |-> project, periodicity |-> periodicity,
                seasonality |-> seasonality]
    /\ calls' = Append(calls, call')
    /\ pc' = "tp_read"
    /\ raw_df' = <<>>
    /\ training_df' = <<>>
    /\ testing_df' = <<>>
    /\ mae_of' = [c \in Combos |-> Inf]
    /\ predictor' = None
    /\ result_data' = None
    /\ best_mae' = Inf
    /\ best_model' = None
    /\ best_config' = None
    /\ trend_i' = 1
    /\ estimator_i' = 1
    /\ penalty_i' = 1
    /\ fitted' = <<>>
    /\ UNCHANGED <<exc, mainVars, biweekly_files, monthly_files, complete_files, i,
                   fs, fs0>>

\* OrbitSkip without the test for '.DS_Store': the entry is processed.
OrbitSkip_processed ==
    /\ pc = "loop"
    /\ i <= Len(biweekly_files)
    /\ biweekly_files[i] = ".DS_Store"
    /\ Trigger(biweekly_data_path, biweekly_files[i], Stem(biweekly_files[i]),
               "biweekly", "26")

\* Lines 159-161: a '.DS_Store' entry is skipped.
OrbitSkip ==
    /\ pc = "loop"
    /\ i <= Len(biweekly_files)
    /\ biweekly_files[i] = ".DS_Store"
    /\ i' = i + 1
    /\ pc' = "loop"
    /\ UNCHANGED <<exc, mainVars, biweekly_files, monthly_files, complete_files,
                   calls, fs, fs0, dataVars, tpVars, tuneVars>>

\* Lines 162-171.
OrbitBiweekly ==
    /\ pc = "loop"
    /\ i <= Len(biweekly_files)
    /\ biweekly_files[i] # ".DS_Store"
    /\ Trigger(biweekly_data_path, biweekly_files[i], Stem(biweekly_files[i]),
               "biweekly", "26")

\* Lines 174-180.
OrbitMonthly ==
    /\ pc = "after_biweekly"
    /\ i <= Len(monthly_files)
    /\ Trigger(monthly_data_path, monthly_files[i], Stem(biweekly_files[i]),
               "monthly", "12")

\* Lines 183-189.
OrbitComplete ==
    /\ pc = "after_monthly"
    /\ i <= Len(complete_files)
    /\ Trigger(complete_data_path, complete_files[i], Stem(biweekly_files[i]),
               "complete", "None")

\* monthly_files[i] or complete_files[i] past the end of the list: IndexError.
OrbitIndexError ==
    /\ \/ pc = "after_biweekly" /\ i > Len(monthly_files)
       \/ pc = "after_monthly" /\ i > Len(complete_files)
    /\ Raise("bayesian_orbit")

\* The end of the loop body: on to the next entry.
OrbitContinue ==
    /\ pc = "after_complete"
    /\ i' = i + 1
    /\ pc' = "loop"
    /\ UNCHANGED <<exc, mainVars, biweekly_files, monthly_files, complete_files,
                   calls, fs, fs0, dataVars, tpVars, tuneVars>>

\* The loop is exhausted: bayesian_orbit returns, and main after it.
OrbitReturn ==
    /\ pc = "loop"
    /\ i > Len(biweekly_files)
    /\ pc' = "done"
    /\ UNCHANGED <<exc, mainVars, orbitVars, dataVars, tpVars, tuneVars>>

(***************************************************************************)
(* main.  pc = "if_<FLAG>": at the test of that flag;                      *)
(*        pc = "in_<stage>": inside data_prepare or bayesian_dglm.         *)
(***************************************************************************)
\* if PREPROCESSING: data_prepare()
MainPreprocessing ==
    /\ pc = "if_PREPROCESSING"
    /\ IF flags.PREPROCESSING
       THEN /\ stages' = Append(stages, "data_prepare")
            /\ pc' = "in_data_prepare"
       ELSE /\ stages' = stages
            /\ pc' = "if_DGLM"
    /\ UNCHANGED <<exc, flags, orbitVars, dataVars, tpVars, tuneVars>>

\* MainDglm with `elif DGLM`: tested only when PREPROCESSING is unset.
MainDglm_elif ==
    /\ pc = "if_DGLM"
    /\ IF flags.DGLM /\ ~flags.PREPROCESSING
       THEN /\ stages' = Append(stages, "bayesian_dglm")
            /\ pc' = "in_bayesian_dglm"
       ELSE /\ stages' = stages
            /\ pc' = "if_ORBIT"
    /\ UNCHANGED <<exc, flags, orbitVars, dataVars, tpVars, tuneVars>>

\* if DGLM: bayesian_dglm(seasonality=True)
MainDglm ==
    /\ pc = "if_DGLM"
    /\ IF flags.DGLM
       THEN /\ stages' = Append(stages, "bayesian_dglm")
            /\ pc' = "in_bayesian_dglm"
       ELSE /\ stages' = stages
            /\ pc' = "if_ORBIT"
    /\ UNCHANGED <<exc, flags, orbitVars, dataVars, tpVars, tuneVars>>

\* if ORBIT: bayesian_orbit()
MainOrbit ==
    /\ pc = "if_ORBIT"
    /\ IF flags.ORBIT
       THEN /\ stages' = Append(stages, "bayesian_orbit")
            /\ pc' = "loop"
       ELSE /\ stages' = stages
            /\ pc' = "done"
    /\ UNCHANGED <<exc, flags, orbitVars, dataVars, tpVars, tuneVars>>

\* data_prepare or bayesian_dglm returns.
StageReturn ==
    /\ pc \in {"in_data_prepare", "in_bayesian_dglm"}
    /\ pc' = IF pc = "in_data_prepare" THEN "if_DGLM" ELSE "if_ORBIT"
    /\ UNCHANGED <<exc, mainVars, orbitVars, dataVars, tpVars, tuneVars>>

\* data_prepare or bayesian_dglm raises.
StageRaise ==
    /\ pc \in {"in_data_prepare", "in_bayesian_dglm"}
    /\ Raise(IF pc = "in_data_prepare" THEN "data_prepare" ELSE "bayesian_dglm")

(***************************************************************************)
(* Inputs.                                                                 *)
(***************************************************************************)
Names == {"p1.csv", "p2.csv", ".DS_Store"}

\* What os.listdir can return: the entries of a directory, each once, in any
\* order.
Listings ==
    { l \in UNION { [1..n -> Names] : n \in 0..Cardinality(Names) } :
        \A a, b \in DOMAIN l : a # b => l[a] # l[b] }

\* A row left in an assessment.csv by an earlier run.
PriorRow(dir) ==
    ResultData("p0", Config("flat", "stan-map", "0.1"), join(dir, "p0.csv"))

PriorFile(dir) == to_csv(NoFile, PriorRow(dir))

\* The assessment.csv files before a run: none yet; those of an earlier run
\* that stopped after its first call; those of an earlier complete run.
PriorFs ==
    { [p \in OutPaths |-> NoFile],
      [p \in OutPaths |-> IF p = csv_output_path("biweekly")
                          THEN PriorFile(biweekly_data_path) ELSE NoFile],
      [p \in OutPaths |->
          IF p = csv_output_path("biweekly") THEN PriorFile(biweekly_data_path)
          ELSE IF p = csv_output_path("monthly") THEN PriorFile(monthly_data_path)
          ELSE PriorFile(complete_data_path)] }

\* MAE outcomes of the 32 combinations: all equal to d, but v1 at c1 and v2
\* at c2.
Table(d, c1, v1, c2, v2) ==
    [c \in Combos |-> IF c = c1 THEN v1 ELSE IF c = c2 THEN v2 ELSE d]

\* Two combinations apart from the rest at the largest finite MAE, or one
\* apart from the rest at inf (all at inf included).
TablesTune ==
    { Table(MaxMae, c1, v1, c2, v2) :
        c1 \in Combos, v1 \in MaeVals, c2 \in Combos, v2 \in MaeVals }
    \cup { Table(Inf, c1, v1, c1, v1) : c1 \in Combos, v1 \in MaeVals }

AllInf == [c \in Combos |-> Inf]

TablesLite ==
    { Table(MaxMae, Config("flat", "stan-mcmc", "0.01"), 0,
            Config("logistic", "stan-map", "1.0"), 0),
      AllInf }

NoCall ==
    [df_path |-> "", file |-> "", project_name |-> "", periodicity |-> "",
     seasonality |-> "None"]

\* The locals of trigger_prediction and hypertune_dlt_model outside a call.
NoLocals ==
    /\ call = NoCall
    /\ raw_df = <<>>
    /\ training_df = <<>>
    /\ testing_df = <<>>
    /\ mae_of = AllInf
    /\ predictor = None
    /\ result_data = None
    /\ trend_i = 1
    /\ estimator_i = 1
    /\ penalty_i = 1
    /\ best_mae = Inf
    /\ best_model = None
    /\ best_config = None
    /\ fitted = <<>>

(***************************************************************************)
(* Spec: bayesian_orbit from its entry (main called it, ORBIT being set).  *)
(***************************************************************************)
Init ==
    /\ flags = [PREPROCESSING |-> FALSE, DGLM |-> FALSE, ORBIT |-> TRUE]
    /\ stages = <<"bayesian_orbit">>
    /\ pc = "loop"
    /\ exc = ""
    /\ biweekly_files \in Listings
    /\ monthly_files \in Listings
    /\ complete_files \in Listings
    /\ i = 1
    /\ calls = <<>>
    /\ fs \in PriorFs
    /\ fs0 = fs
    /\ NoLocals

Next ==
    \/ OrbitSkip
    \/ OrbitBiweekly
    \/ OrbitMonthly
    \/ OrbitComplete
    \/ OrbitIndexError
    \/ OrbitContinue
    \/ OrbitReturn
    \/ TPRead(CsvLite)
    \/ TPReadRaise
    \/ TPHypertune(TablesLite)
    \/ TPHypertuneRaise
    \/ TPPredictNone
    \/ TPFinal
    \/ TPFinalRaise
    \/ TPWrite

Spec == Init /\ [][Next]_vars

(***************************************************************************)
(* SpecMain: main from its start; the monthly and complete directories     *)
(* list like the biweekly one, or are empty.                                *)
(***************************************************************************)
InitMain ==
    /\ flags \in [{"PREPROCESSING", "DGLM", "ORBIT"} -> BOOLEAN]
    /\ stages = <<>>
    /\ pc = "if_PREPROCESSING"
    /\ exc = ""
    /\ biweekly_files \in Listings
    /\ monthly_files \in {biweekly_files, <<>>}
    /\ complete_files \in {biweekly_files, <<>>}
    /\ i = 1
    /\ calls = <<>>
    /\ fs = [p \in OutPaths |-> NoFile]
    /\ fs0 = fs
    /\ NoLocals

NextMain ==
    \/ MainPreprocessing
    \/ MainDglm
    \/ MainOrbit
    \/ StageReturn
    \/ StageRaise
    \/ Next

SpecMain == InitMain /\ [][NextMain]_vars

(***************************************************************************)
(* SpecTune: one trigger_prediction call from the entry of                 *)
(* hypertune_dlt_model, the grid loop step by step, over the MAE outcomes  *)
(* of TablesTune.                                                          *)
(***************************************************************************)
InitTune ==
    /\ flags = [PREPROCESSING |-> FALSE, DGLM |-> FALSE, ORBIT |-> TRUE]
    /\ stages = <<"bayesian_orbit">>
    /\ pc = "grid"
    /\ exc = ""
    /\ biweekly_files = <<"p1.csv">>
    /\ monthly_files = <<"p1.csv">>
    /\ complete_files = <<"p1.csv">>
    /\ i = 1
    /\ call = [df_path |-> join(biweekly_data_path, "p1.csv"), file |-> "p1.csv",
               project_name |-> "p1", periodicity |-> "biweekly",
               seasonality |-> "26"]
    /\ calls = <<call>>
    /\ fs = [p \in OutPaths |-> NoFile]
    /\ fs0 = fs
    /\ \E csv \in CsvLite :
         /\ raw_df = csv
         /\ training_df = iloc_to(dropna(csv), split_point(dropna(csv)))
         /\ testing_df = iloc_from(dropna(csv), split_point(dropna(csv)))
    /\ mae_of \in TablesTune
    /\ predictor = None
    /\ result_data = None
    /\ trend_i = 1
    /\ estimator_i = 1
    /\ penalty_i = 1
    /\ best_mae = Inf
    /\ best_model = None
    /\ best_config = None
    /\ fitted = <<>>

NextTune ==
    \/ GridIter
    \/ GridRaise
    \/ GridReturn
    \/ TPPredictNone
    \/ TPFinal
    \/ TPFinalRaise
    \/ TPWrite

SpecTune == InitTune /\ [][NextTune]_vars

\* The interpreter goes on while there is a statement to execute.
FairTune == SpecTune /\ WF_vars(NextTune)

(***************************************************************************)
(* SpecSplit: the first lines of one trigger_prediction call, over every   *)
(* CSV content of at most MaxRows rows.                                    *)
(***************************************************************************)
InitSplit ==
    /\ flags = [PREPROCESSING |-> FALSE, DGLM |-> FALSE, ORBIT |-> TRUE]
    /\ stages = <<"bayesian_orbit">>
    /\ pc = "tp_read"
    /\ exc = ""
    /\ biweekly_files = <<"p1.csv">>
    /\ monthly_files = <<"p1.csv">>
    /\ complete_files = <<"p1.csv">>
    /\ i = 1
    /\ call = [df_path |-> join(biweekly_data_path, "p1.csv"), file |-> "p1.csv",
               project_name |-> "p1", periodicity |-> "biweekly",
               seasonality |-> "26"]
    /\ calls = <<call>>
    /\ fs = [p \in OutPaths |-> NoFile]
    /\ fs0 = fs
    /\ raw_df = <<>>
    /\ training_df = <<>>
    /\ testing_df = <<>>
    /\ mae_of = AllInf
    /\ predictor = None
    /\ result_data = None
    /\ trend_i = 1
    /\ estimator_i = 1
    /\ penalty_i = 1
    /\ best_mae = Inf
    /\ best_model = None
    /\ best_config = None
    /\ fitted = <<>>

NextSplit ==
    \/ TPRead(CsvAll)
    \/ TPReadRaise

SpecSplit == InitSplit /\ [][NextSplit]_vars

(***************************************************************************)
(* Vocabulary of the properties.                                           *)
(***************************************************************************)
InCall ==
    \/ pc \in {"tp_read", "tp_tune", "grid", "tp_predict", "tp_write"}
    \/ pc = "raised" /\ exc \in {"trigger_prediction", "hypertune_dlt_model"}

\* The calls of trigger_prediction that have returned normally.
Returned == IF InCall THEN SubSeq(calls, 1, Len(calls) - 1) ELSE calls

ReturnedFor(p) == SelectSeq(Returned, LAMBDA c : c.periodicity = p)

\* The data rows an assessment.csv has gained since bayesian_orbit was entered.
Gained(p) ==
    LET f  == fs[csv_output_path(p)]
        f0 == fs0[csv_output_path(p)]
    IN  IF f0.isfile THEN SubSeq(f.lines, Len(f0.lines) + 1, Len(f.lines))
        ELSE IF f.isfile THEN Tail(f.lines)
        ELSE <<>>

\* The row of a call: everything but the configuration is fixed by the call.
IsRowOf(r, c) ==
    /\ r.Project = c.project_name
    /\ r.Model = "DLT"
    /\ Config(r.Trend, r.Estimator, r.Penalty) \in Combos
    /\ r.MAE = Metric("MAE", c.df_path)
    /\ r.MAPE = Metric("MAPE", c.df_path)
    /\ r.RMSE = Metric("RMSE", c.df_path)
    /\ r.MSE = Metric("MSE", c.df_path)

\* The entries of the biweekly listing that are processed, in listing order.
Entries(listing) == SelectSeq(listing, LAMBDA n : n # ".DS_Store")

\* The k-th combination of the grid, trend outermost and penalty innermost.
NthConfig(k) ==
    Config(trend_options[(k - 1) \div (Len(estimators) * Len(penalties)) + 1],
           estimators[(((k - 1) \div Len(penalties)) % Len(estimators)) + 1],
           penalties[((k - 1) % Len(penalties)) + 1])

GridSize == Len(trend_options) * Len(estimators) * Len(penalties)

ModelOf(c, seasonality) == DLT(seasonality, c.estimator, c.trend, c.penalty)

Rank(c) == CHOOSE k \in 1..GridSize : NthConfig(k) = c

AfterGrid == pc \in {"tp_predict", "tp_write", "after_biweekly"}

(***************************************************************************)
(* C1.  Every trigger_prediction call that returns appends exactly one row *)
(* to the assessment.csv of its periodicity and changes nothing else: each *)
(* file holds what it held at the start (a header line alone, if it did    *)
(* not exist and a call for it has returned) followed by one row per       *)
(* returned call of its periodicity, in call order.                        *)
(***************************************************************************)
C1_OneRowPerReturnedCall ==
    \A p \in Periodicities :
        LET f    == fs[csv_output_path(p)]
            f0   == fs0[csv_output_path(p)]
            done == ReturnedFor(p)
            old  == IF f0.isfile THEN f0.lines ELSE <<Header>>
        IN  IF done = <<>> THEN f = f0
            ELSE /\ f.isfile
                 /\ Len(f.lines) = Len(old) + Len(done)
                 /\ SubSeq(f.lines, 1, Len(old)) = old
                 /\ \A k \in 1..Len(done) :
                        IsRowOf(f.lines[Len(old) + k], done[k])

\* Two calls returned for a file that existed and two for one that did not.
C1_Witness ==
    /\ pc = "done"
    /\ fs0[csv_output_path("biweekly")].isfile
    /\ ~fs0[csv_output_path("monthly")].isfile
    /\ Len(fs[csv_output_path("biweekly")].lines) = 4
    /\ Len(fs[csv_output_path("monthly")].lines) = 3

(***************************************************************************)
(* C2.  The grid loop fits the 32 combinations once each in nested order   *)
(* (trend outermost, penalty innermost): what has been fitted is always an *)
(* initial part of that order, every iteration adds the next combination,  *)
(* the loop goes on exactly while combinations are left whatever the MAEs  *)
(* seen, hypertune_dlt_model returns only with all 32 fitted, and the loop *)
(* is left in the end (by the return, or by an exception of a fit).        *)
(***************************************************************************)
C2_Inv ==
    /\ Len(fitted) <= GridSize
    /\ \A k \in 1..Len(fitted) : fitted[k] = ModelOf(NthConfig(k), call.seasonality)
    /\ pc = "grid" => (trend_i <= Len(trend_options) <=> Len(fitted) < GridSize)
    /\ AfterGrid => Len(fitted) = GridSize

C2_Step ==
    (pc = "grid" /\ pc' = "grid") => Len(fitted') = Len(fitted) + 1

C2_ExhaustiveGrid == []C2_Inv /\ [][C2_Step]_vars /\ <>(pc # "grid")

\* The first combination already reached MAE 0, and all 32 were fitted.
C2_Witness ==
    /\ pc = "tp_predict"
    /\ Len(fitted) = GridSize
    /\ best_mae = 0
    /\ best_config = NthConfig(1)

(***************************************************************************)
(* C3.  hypertune_dlt_model returns a grid combination whose MAE is at     *)
(* most that of every combination, the first such in iteration order.      *)
(***************************************************************************)
C3_ReturnsFirstMinimum ==
    pc = "tp_predict" =>
        /\ best_config \in Combos
        /\ \A c \in Combos : mae_of[best_config] <= mae_of[c]
        /\ \A c \in Combos :
               mae_of[c] = mae_of[best_config] => Rank(best_config) <= Rank(c)

(***************************************************************************)
(* C4.  The training set is the first round(0.8 n) of the n                *)
(* complete rows, the testing set the rest, and both are non-empty for     *)
(* every n >= 1.                                                           *)
(***************************************************************************)
\* The complete rows of the CSV, in file order.
IsDropna(df, csv) ==
    /\ \A k \in 1..Len(df) : ~df[k].na /\ csv[df[k].id] = df[k]
    /\ \A a, b \in 1..Len(df) : a < b => df[a].id < df[b].id
    /\ \A k \in 1..Len(csv) : ~csv[k].na => \E a \in 1..Len(df) : df[a] = csv[k]

SplitOf(from) ==
    LET df == training_df \o testing_df
        n  == Len(df)
        k  == Len(training_df)
    IN  /\ IsDropna(df, raw_df)
        /\ 5 * k - 4 * n \in -2..2          \* k is the integer nearest 0.8 n
        /\ \A a \in 1..Len(training_df), b \in 1..Len(testing_df) :
               training_df[a].id < testing_df[b].id
        /\ n >= from => training_df # <<>> /\ testing_df # <<>>

C4_SplitNonEmptyFrom1 == pc = "tp_tune" => SplitOf(1)

(***************************************************************************)
(* C4, amended.  The same, with both sets non-empty for every n >= 3 (for  *)
(* n = 1 and n = 2 the testing set is empty).                              *)
(***************************************************************************)
C4_SplitNonEmptyFrom3 ==
    /\ pc = "tp_tune" => SplitOf(3)
    /\ pc = "tp_tune" /\ Len(training_df \o testing_df) \in 1..2
           => testing_df = <<>>

\* Six rows read, one dropped, four for training and one for testing.
C4_Witness ==
    /\ pc = "tp_tune"
    /\ Len(raw_df) = 6
    /\ Len(training_df) = 4
    /\ Len(testing_df) = 1

(***************************************************************************)
(* C5.  An exception raised in a trigger_prediction call is not handled:   *)
(* the run stops there (nothing further is processed), the failing call    *)
(* has written no row, and the rows of the earlier calls are in place.     *)
(***************************************************************************)
C5_NoRecovery ==
    exc # "" =>
        /\ pc = "raised"
        /\ ~ENABLED Next
        /\ \A p \in Periodicities :
               /\ Len(Gained(p)) = Len(ReturnedFor(p))
               /\ \A k \in 1..Len(Gained(p)) :
                      Gained(p)[k].Project = ReturnedFor(p)[k].project_name
               /\ fs0[csv_output_path(p)].isfile =>
                      SubSeq(fs[csv_output_path(p)].lines, 1,
                             Len(fs0[csv_output_path(p)].lines))
                          = fs0[csv_output_path(p)].lines
        /\ exc \in {"trigger_prediction", "hypertune_dlt_model"} =>
               /\ calls # <<>>
               /\ calls[Len(calls)] = call
               /\ result_data = None

\* The monthly call of the second of three entries fails in the grid.
C5_Witness ==
    /\ pc = "raised"
    /\ exc = "hypertune_dlt_model"
    /\ Len(calls) = 5
    /\ Len(biweekly_files) = 3
    /\ i = 2
    /\ Len(Gained("biweekly")) = 2
    /\ Len(Gained("monthly")) = 1

(***************************************************************************)
(* C6.  bayesian_orbit makes, for each biweekly entry other than           *)
(* '.DS_Store' in listing order, the three calls biweekly (26), monthly    *)
(* (12), complete (None); at the head of the loop the three files have     *)
(* each gained one row per entry processed, and one per entry at the end.  *)
(***************************************************************************)
C6_Order == <<[periodicity |-> "biweekly", seasonality |-> "26"],
              [periodicity |-> "monthly", seasonality |-> "12"],
              [periodicity |-> "complete", seasonality |-> "None"]>>

C6_ThreeCallsPerEntry ==
    LET todo == Entries(biweekly_files)
        seen == Entries(SubSeq(biweekly_files, 1, i - 1))
    IN  /\ Len(calls) <= 3 * Len(todo)
        /\ \A k \in 1..Len(calls) :
               /\ calls[k].periodicity = C6_Order[((k - 1) % 3) + 1].periodicity
               /\ calls[k].seasonality = C6_Order[((k - 1) % 3) + 1].seasonality
               /\ calls[k].project_name = Stem(todo[((k - 1) \div 3) + 1])
        /\ pc \in {"loop", "done"} =>
               /\ Len(calls) = 3 * Len(seen)
               /\ \A p \in Periodicities : Len(Gained(p)) = Len(seen)
        /\ pc = "done" => seen = todo

\* A complete run over two projects and a '.DS_Store' between them.
C6_Witness ==
    /\ pc = "done"
    /\ Len(biweekly_files) = 3
    /\ biweekly_files[2] = ".DS_Store"
    /\ Len(calls) = 6
    /\ \A p \in Periodicities : Len(Gained(p)) = 2

(***************************************************************************)
(* C7.  main calls data_prepare, bayesian_dglm, bayesian_orbit in this     *)
(* order, each at most once and only if its flag is set; the stages called *)
(* are always an initial part of the enabled ones, a stage is entered only *)
(* when the one before has returned, and a run that ends normally has      *)
(* called exactly the enabled ones.                                        *)
(***************************************************************************)
C7_Enabled ==
    SelectSeq(<<[f |-> "PREPROCESSING", s |-> "data_prepare"],
                [f |-> "DGLM", s |-> "bayesian_dglm"],
                [f |-> "ORBIT", s |-> "bayesian_orbit"]>>,
              LAMBDA x : flags[x.f])

C7_StagesInOrder ==
    /\ Len(stages) <= Len(C7_Enabled)
    /\ \A k \in 1..Len(stages) : stages[k] = C7_Enabled[k].s
    /\ pc = "done" => Len(stages) = Len(C7_Enabled)
    /\ pc \in {"in_data_prepare", "in_bayesian_dglm"} =>
           stages # <<>> /\ pc = "in_" \o stages[Len(stages)]
    /\ calls # <<>> => stages # <<>> /\ stages[Len(stages)] = "bayesian_orbit"

\* data_prepare and bayesian_orbit ran, bayesian_dglm was skipped.
C7_Witness ==
    /\ pc = "done"
    /\ stages = <<"data_prepare", "bayesian_orbit">>
    /\ ~flags.DGLM
    /\ Len(calls) >= 3

(***************************************************************************)
(* C8.  Every row bayesian_orbit writes for project P is computed from     *)
(* P's own file of the row's periodicity.                                  *)
(***************************************************************************)
C8_DataDir(p) ==
    IF p = "biweekly" THEN biweekly_data_path
    ELSE IF p = "monthly" THEN monthly_data_path
    ELSE complete_data_path

C8_RowsFromOwnFile ==
    \A p \in Periodicities :
        \A k \in 1..Len(Gained(p)) :
            LET r == Gained(p)[k]
            IN  r.MAE = Metric("MAE", join(C8_DataDir(p), r.Project \o ".csv"))

(***************************************************************************)
(* C9.  In the grid loop best_model, best_config and best_mae are all at   *)
(* their initial values, or best_model is the fitted model of the          *)
(* combination in best_config and best_mae its MAE; best_mae never         *)
(* increases; the row written carries the combination of the model that    *)
(* made the final prediction.                                              *)
(***************************************************************************)
C9_Inv ==
    /\ \/ best_model = None /\ best_config = None /\ best_mae = Inf
       \/ /\ best_config \in Combos
          /\ best_model = ModelOf(best_config, call.seasonality)
          /\ \E k \in 1..Len(fitted) : fitted[k] = best_model
          /\ best_mae = mae_of[best_config]
    /\ pc = "after_biweekly" =>
           LET f == fs[csv_output_path(call.periodicity)]
               r == f.lines[Len(f.lines)]
           IN  /\ predictor # None
               /\ r.Trend = predictor.global_trend_option
               /\ r.Estimator = predictor.estimator
               /\ r.Penalty = predictor.regressor_sign
               /\ predictor \in { fitted[k] : k \in 1..Len(fitted) }

C9_Step == best_mae' <= best_mae

C9_BestTripleConsistent == []C9_Inv /\ [][C9_Step]_vars

\* The best was replaced more than once: the last combination won with MAE 0
\* after the first had set a finite MAE.
C9_Witness ==
    /\ pc = "after_biweekly"
    /\ best_config = NthConfig(GridSize)
    /\ best_mae = 0
    /\ mae_of[NthConfig(1)] = MaxMae

(***************************************************************************)
(* C10.  Whenever the 32 fits and predictions return, hypertune_dlt_model  *)
(* returns a best_model and a best_config that are not None.               *)
(***************************************************************************)
C10_NeverNone ==
    pc = "tp_predict" => best_model # None /\ best_config # None
====
